---- MODULE Spec2Model ----
(***************************************************************************)
(* A model of src/scrapper.py: the depth-bounded recursive crawl of        *)
(* WebScraper.navigate_and_extract, the extractors it calls and the        *)
(* opaque browser (Selenium driver) it drives.                             *)
(*                                                                         *)
(* Strings are modelled as tuples of characters, so that                   *)
(* str.startswith('http') is computed and not assumed.                     *)
(***************************************************************************)
EXTENDS Integers, Sequences, FiniteSets, TLC

VARIABLES
    seed,           \* argument url of navigate_and_extract
    max_depth,      \* argument max_depth of navigate_and_extract
    scraped_pages,  \* the list scraped_pages (line 98)
    visited_urls,   \* the set visited_urls (line 99)
    stack,          \* the live recursive_scrape calls, innermost last
    status,         \* "running" | "returned" | "raised" : navigate_and_extract
    site,           \* the renderer's answer for each location requested so far
    redirects,      \* whether the modelled site answers some requests with a redirect
    gets,           \* history: the driver.get(url) calls, each with the depth of its call
    requests,       \* history: requests[i] is the url requested for scraped_pages[i]
    paths,          \* history: paths[i] is the call-tree position of scraped_pages[i]
    document,       \* the page the driver shows when extract_image_links is called alone
    extracted,      \* the list that call of extract_image_links returned
    scraped_data,   \* argument scraped_data of save_scraped_data
    out_file,       \* the blocks written to output_file
    save_status,    \* "idle" | "ready" | "saved" | "raised" : save_scraped_data
    run,            \* which call of navigate_and_extract on the same scraper this is
    first_result,   \* the list the first call returned
    main_pc,        \* the position of main
    scraper,        \* whether the local name scraper of main is bound
    driver,         \* self.driver: "none" | "live" | "quit"
    quits,          \* history: number of driver.quit() calls
    unhandled       \* the exception that leaves main, or "none"

extract_vars == <<document, extracted>>
report_vars == <<scraped_data, out_file, save_status>>
again_vars == <<run, first_result>>
main_vars == <<main_pc, scraper, driver, quits, unhandled>>

vars == <<seed, max_depth, scraped_pages, visited_urls, stack, status, site,
          redirects, gets, requests, paths, extract_vars, report_vars,
          again_vars, main_vars>>

-----------------------------------------------------------------------------
(* Bounds of the model *)

\* largest max_depth argument tried
MaxDepthBound == 2
\* total number of <img> elements over all documents rendered in one run
MaxImages == 4

-----------------------------------------------------------------------------
(* Strings and Python values *)

\* Python None and a raised exception, as values of the string type
None == <<"None">>
HTTP == <<"h", "t", "t", "p">>
EmptyStr == <<>>
UrlA == HTTP \o <<":", "/", "/", "a">>
UrlB == HTTP \o <<":", "/", "/", "b">>
UrlC == HTTP \o <<":", "/", "/", "c">>
UrlD == HTTP \o <<":", "/", "/", "d">>

\* the absolute locations of the modelled web
Locations == {UrlA, UrlB, UrlC, UrlD}
\* the url arguments tried: a well-formed seed and a malformed (empty) one
Seeds == {UrlA, EmptyStr}
\* every string that can be handed to driver.get
Targets == Locations \cup Seeds

\* str.startswith(prefix)
StartsWith(s, prefix) ==
    /\ Len(s) >= Len(prefix)
    /\ SubSeq(s, 1, Len(prefix)) = prefix

\* Python truthiness of an attribute value (None and '' are falsy)
Truthy(v) == v # None /\ v # EmptyStr

Last(s) == s[Len(s)]
Pop(s) == SubSeq(s, 1, Len(s) - 1)

-----------------------------------------------------------------------------
(* The rendered document, as the driver exposes it *)

Raised == <<"Raised">>
\* the renderer has not been asked for this location yet
Unknown == [kind |-> "unknown"]
\* extract_page_details raised
DetailsRaised == [raised |-> TRUE]

\* an <img> element: its src attribute, the href of its parent, and whether
\* reading it raises ("src": the handle is stale; "parent": the parent lookup
\* or its attribute read raises)
Img(src, href, raises) == [src |-> src, href |-> href, raises |-> raises]

\* line 65: img.get_attribute('src') or img.find_element(By.XPATH, '..').get_attribute('href')
ImgLink(img) ==
    IF img.raises = "src" THEN Raised
    ELSE IF Truthy(img.src) THEN img.src
    ELSE IF img.raises = "parent" THEN Raised
    ELSE img.href

\* line 68: the filter  link and link.startswith('http')
KeepLink(link) == Truthy(link) /\ StartsWith(link, HTTP)

\* lines 62-71 with the try block around each element instead of around the
\* whole comprehension: an element whose read raises is skipped alone
PerElementLinks(page) ==
    IF page.find_raises THEN <<>>
    ELSE LET image_links == [i \in 1..Len(page.imgs) |-> ImgLink(page.imgs[i])]
             Readable(link) == link # Raised /\ KeepLink(link)
         IN  SelectSeq(image_links, Readable)

\* lines 62-71: page.imgs is the list find_elements returns, page.find_raises
\* says that find_elements itself raises; any exception in the try block gives []
extract_image_links(page) ==
    IF page.find_raises THEN <<>>
    ELSE LET image_links == [i \in 1..Len(page.imgs) |-> ImgLink(page.imgs[i])]
         IN  IF \E i \in 1..Len(page.imgs) : image_links[i] = Raised
             THEN <<>>
             ELSE SelectSeq(image_links, KeepLink)

\* lines 80-85: the dict read from the driver (raises when the page has no body)
extract_page_details(page) ==
    IF page.body = None THEN DetailsRaised
    ELSE [title |-> page.title, url |-> page.current_url, page_content |-> page.body]

-----------------------------------------------------------------------------
(* The renderer: what driver.get(url) leads to.  The browser is opaque; its *)
(* answer for a location is chosen when the location is first requested and *)
(* is the same on every later request (a deterministic site).               *)

\* <img> elements of the crawled documents: an absolute src, or a stale handle
StaleImg == Img(None, None, "src")
CrawlImgs == {Img(l, None, "no") : l \in Locations} \cup {StaleImg}

SeqsUpTo(S, n) == UNION {[1..k -> S] : k \in 0..n}

RECURSIVE SumImgs(_, _)
SumImgs(f, S) ==
    IF S = {} THEN 0
    ELSE LET l == CHOOSE x \in S : TRUE
             n == IF f[l].kind = "ok" THEN Len(f[l].imgs) ELSE 0
         IN  n + SumImgs(f, S \ {l})

ImagesLeft == MaxImages - SumImgs(site, Targets)

\* The locations other than the seed are interchangeable, so one document per
\* renaming is enough: a document names a location that no document named
\* before only if it is the next one of LocOrder.
LocOrder == <<UrlA, UrlB, UrlC, UrlD>>
Rank(l) == IF l \in Locations THEN CHOOSE r \in 1..Len(LocOrder) : LocOrder[r] = l
           ELSE 0
MaxOf(S) == CHOOSE m \in S : \A x \in S : x <= m
NamedRanks ==
    {Rank(UrlA)} \cup
    UNION {{Rank(site[l].imgs[i].src) : i \in 1..Len(site[l].imgs)} :
             l \in {t \in Targets : site[t].kind = "ok"}}
InOrder(imgs) ==
    \A i \in 1..Len(imgs) :
        Rank(imgs[i].src) <=
            1 + MaxOf(NamedRanks \cup {Rank(imgs[j].src) : j \in 1..(i - 1)})
CrawlDocs == {d \in SeqsUpTo(CrawlImgs, ImagesLeft) : InOrder(d)}

\* the final location the browser ends on for a request of url
FinalLocations(url) == IF redirects THEN Locations ELSE {url}

GetFails == [kind |-> "get_fails"]
OkPage(final, body, imgs, find_raises) ==
    [kind |-> "ok", title |-> <<"title of">> \o final, current_url |-> final,
     body |-> body, imgs |-> imgs, find_raises |-> find_raises]

\* a url that is not absolute is refused by the browser: driver.get raises
Answers(url) ==
    IF site[url].kind # "unknown" THEN {site[url]}
    ELSE IF url \notin Locations THEN {GetFails}
    ELSE {GetFails}
         \cup {OkPage(f, None, <<>>, FALSE) : f \in FinalLocations(url)}
         \cup {OkPage(f, <<"text of">> \o f, <<>>, TRUE) : f \in FinalLocations(url)}
         \cup {OkPage(f, <<"text of">> \o f, d, FALSE) :
                 f \in FinalLocations(url), d \in CrawlDocs}

-----------------------------------------------------------------------------
(* recursive_scrape, lines 101-122 *)

Frame(url, depth, path) ==
    [current_url |-> url, current_depth |-> depth, pc |-> "call",
     image_links |-> <<>>, i |-> 0, path |-> path]

\* line 102 without the visited test
GuardNoVisited(current_url, current_depth) ==
    current_depth > max_depth

\* line 102 with the depth test off by one
GuardOffByOne(current_url, current_depth) ==
    current_depth > max_depth + 1 \/ current_url \in visited_urls

\* line 102
Guard(current_url, current_depth) ==
    current_depth > max_depth \/ current_url \in visited_urls

TopIs(pc) == status = "running" /\ stack # <<>> /\ Last(stack).pc = pc

\* a step of recursive_scrape leaves its arguments alone, and everything
\* outside navigate_and_extract
Unchanged_inputs ==
    UNCHANGED <<seed, max_depth, redirects, extract_vars, report_vars,
                again_vars, main_vars>>

\* line 106: driver.get(current_url), logged with the depth and the call-tree
\* position of the call
DriverGet(f) ==
    Append(gets, [url |-> f.current_url, depth |-> f.current_depth, path |-> f.path])

\* lines 121-122 missing: the exception leaves recursive_scrape and ends the run
ExceptPropagates(stk) == [stack |-> <<>>, status |-> "raised"]

\* lines 121-122 retrying the failed call instead of returning
ExceptRetries(stk) == [stack |-> stk, status |-> "running"]

\* lines 121-122: the except clause prints the error and the call returns
Except(stk) == [stack |-> Pop(stk), status |-> "running"]

\* lines 118-119 walking the candidate list from its end
NextCandidateReversed(f) == Len(f.image_links) + 1 - f.i

\* lines 118-119: the candidate followed by iteration f.i of the for loop
NextCandidate(f) == f.i

\* lines 102-103: the call returns at once
GuardReturn ==
    /\ TopIs("call")
    /\ Guard(Last(stack).current_url, Last(stack).current_depth)
    /\ stack' = Pop(stack)
    /\ UNCHANGED <<scraped_pages, visited_urls, status, site, gets, requests, paths>>
    /\ Unchanged_inputs

\* lines 106, 121-122: driver.get raises, the except clause prints and the call returns
ScrapeGetFails ==
    /\ TopIs("call")
    /\ LET f == Last(stack) IN
       /\ ~Guard(f.current_url, f.current_depth)
       /\ \E page \in Answers(f.current_url) :
            /\ page.kind = "get_fails"
            /\ site' = [site EXCEPT ![f.current_url] = page]
       /\ gets' = DriverGet(f)
       /\ stack' = Except(stack).stack
       /\ status' = Except(stack).status
    /\ UNCHANGED <<scraped_pages, visited_urls, requests, paths>>
    /\ Unchanged_inputs

\* lines 106-110, 121-122: the page loads, extract_page_details raises
ScrapeDetailsFail ==
    /\ TopIs("call")
    /\ LET f == Last(stack) IN
       /\ ~Guard(f.current_url, f.current_depth)
       /\ \E page \in Answers(f.current_url) :
            /\ page.kind = "ok"
            /\ extract_page_details(page) = DetailsRaised
            /\ site' = [site EXCEPT ![f.current_url] = page]
       /\ gets' = DriverGet(f)
       /\ stack' = Except(stack).stack
       /\ status' = Except(stack).status
    /\ UNCHANGED <<scraped_pages, visited_urls, requests, paths>>
    /\ Unchanged_inputs

\* lines 106-115: the page loads, its details are appended, the url is marked
\* visited and the candidate list is extracted
ScrapeOk ==
    /\ TopIs("call")
    /\ LET f == Last(stack) IN
       /\ ~Guard(f.current_url, f.current_depth)
       /\ \E page \in Answers(f.current_url) :
            /\ page.kind = "ok"
            /\ extract_page_details(page) # DetailsRaised
            /\ site' = [site EXCEPT ![f.current_url] = page]
            /\ scraped_pages' = Append(scraped_pages, extract_page_details(page))
            /\ stack' = [stack EXCEPT ![Len(stack)] =
                           [f EXCEPT !.pc = "loop",
                                     !.image_links = extract_image_links(page),
                                     !.i = 1]]
       /\ gets' = DriverGet(f)
       /\ visited_urls' = visited_urls \cup {f.current_url}
       /\ requests' = Append(requests, f.current_url)
       /\ paths' = Append(paths, f.path)
    /\ UNCHANGED status
    /\ Unchanged_inputs

\* lines 118-119: the next iteration of the for loop calls recursive_scrape
FollowLink ==
    /\ TopIs("loop")
    /\ LET f == Last(stack) IN
       /\ f.i <= Len(f.image_links)
       /\ stack' = Append([stack EXCEPT ![Len(stack)] = [f EXCEPT !.i = @ + 1]],
                          Frame(f.image_links[NextCandidate(f)], f.current_depth + 1,
                                Append(f.path, NextCandidate(f))))
    /\ UNCHANGED <<scraped_pages, visited_urls, status, site, gets, requests, paths>>
    /\ Unchanged_inputs

\* line 118: the for loop is exhausted and the call returns
LoopDone ==
    /\ TopIs("loop")
    /\ Last(stack).i > Len(Last(stack).image_links)
    /\ stack' = Pop(stack)
    /\ UNCHANGED <<scraped_pages, visited_urls, status, site, gets, requests, paths>>
    /\ Unchanged_inputs

\* line 125: return scraped_pages
Return ==
    /\ status = "running"
    /\ stack = <<>>
    /\ status' = "returned"
    /\ UNCHANGED <<scraped_pages, visited_urls, stack, site, gets, requests, paths>>
    /\ Unchanged_inputs

-----------------------------------------------------------------------------
(* navigate_and_extract, lines 98-125 *)

\* lines 98-99, 124: fresh list and set, then recursive_scrape(url, 0)
Start ==
    /\ seed \in Seeds
    /\ max_depth \in (-1)..MaxDepthBound
    /\ scraped_pages = <<>>
    /\ visited_urls = {}
    /\ stack = <<Frame(seed, 0, <<>>)>>
    /\ status = "running"
    /\ site = [l \in Targets |-> Unknown]
    /\ gets = <<>>
    /\ requests = <<>>
    /\ paths = <<>>

Next ==
    \/ GuardReturn
    \/ ScrapeGetFails
    \/ ScrapeDetailsFail
    \/ ScrapeOk
    \/ FollowLink
    \/ LoopDone
    \/ Return

\* nothing but navigate_and_extract is running
NoDocument == OkPage(EmptyStr, None, <<>>, FALSE)
NotExtracted == <<None>>
ExtractIdle == document = NoDocument /\ extracted = NotExtracted
ReportIdle == scraped_data = <<>> /\ out_file = <<>> /\ save_status = "idle"
FirstCall == run = 1 /\ first_result = <<>>
MainIdle ==
    /\ main_pc = "idle"
    /\ scraper = "bound"
    /\ driver = "live"
    /\ quits = 0
    /\ unhandled = "none"

\* a site without redirects: every page is recorded under the requested url
Init ==
    Start /\ redirects = FALSE /\ ExtractIdle /\ ReportIdle /\ FirstCall /\ MainIdle
Spec == Init /\ [][Next]_vars

\* a site where a request may end on another location
InitRedirect ==
    Start /\ redirects = TRUE /\ ExtractIdle /\ ReportIdle /\ FirstCall /\ MainIdle
SpecRedirect == InitRedirect /\ [][Next]_vars

-----------------------------------------------------------------------------
(* navigate_and_extract called a second time on the same scraper, with the   *)
(* same arguments and against the same site                                  *)

\* line 99 with the set kept from the call before (a set owned by the scraper)
VisitedKept(old) == old

\* line 99: visited_urls = set(), whatever the call before left
NewVisited(old) == {}

\* lines 98-99, 124: the second call starts on a fresh list and a fresh set
CallAgain ==
    /\ status = "returned"
    /\ run = 1
    /\ run' = 2
    /\ first_result' = scraped_pages
    /\ scraped_pages' = <<>>
    /\ visited_urls' = NewVisited(visited_urls)
    /\ stack' = <<Frame(seed, 0, <<>>)>>
    /\ status' = "running"
    /\ gets' = <<>>
    /\ requests' = <<>>
    /\ paths' = <<>>
    /\ UNCHANGED <<seed, max_depth, site, redirects, extract_vars, report_vars, main_vars>>

NextAgain == Next \/ CallAgain

SpecAgain == Init /\ [][NextAgain]_vars

-----------------------------------------------------------------------------
(* extract_image_links called on one rendered document, lines 55-71 *)

\* largest number of <img> elements of that document
MaxElements == 2

UrlS == <<"h", "t", "t", "p", "s", ":", "/", "/", "a">>
RelX == <<"/", "x">>
ImagesY == <<"i", "m", "a", "g", "e", "s", "/", "y", ".", "p", "n", "g">>
\* a relative reference whose first letters happen to be 'http'
HttpFoo == HTTP \o <<"f", "o", "o">>

\* what get_attribute('src') and the parent's get_attribute('href') may return
SrcValues == {None, EmptyStr, RelX, ImagesY, UrlA, UrlS, HttpFoo}
HrefValues == {None, RelX, UrlB}
PageImgs ==
    {Img(src, href, raises) :
        src \in SrcValues, href \in HrefValues, raises \in {"no", "src", "parent"}}
ExtractDocs ==
    {OkPage(UrlA, <<"text">>, imgs, FALSE) : imgs \in SeqsUpTo(PageImgs, MaxElements)}
    \cup {OkPage(UrlA, <<"text">>, <<>>, TRUE)}

\* navigate_and_extract is not running
CrawlIdle ==
    /\ seed = UrlA
    /\ max_depth = 0
    /\ scraped_pages = <<>>
    /\ visited_urls = {}
    /\ stack = <<>>
    /\ status = "idle"
    /\ site = [l \in Targets |-> Unknown]
    /\ redirects = FALSE
    /\ gets = <<>>
    /\ requests = <<>>
    /\ paths = <<>>

crawl_vars == <<seed, max_depth, scraped_pages, visited_urls, stack, status, site,
                redirects, gets, requests, paths>>

\* lines 62-71: one call of extract_image_links on the page the driver shows
ExtractImageLinks ==
    /\ extracted = NotExtracted
    /\ document # NoDocument
    /\ extracted' = extract_image_links(document)
    /\ UNCHANGED <<document, crawl_vars, report_vars, again_vars, main_vars>>

InitExtract ==
    /\ document \in ExtractDocs
    /\ extracted = NotExtracted
    /\ CrawlIdle /\ ReportIdle /\ FirstCall /\ MainIdle

NextExtract == ExtractImageLinks

SpecExtract == InitExtract /\ [][NextExtract]_vars

-----------------------------------------------------------------------------
(* save_scraped_data, lines 127-140.  The file is the sequence of the strings *)
(* written to it; an f-string is the tuple of its literal parts and of the   *)
(* characters of its fields.                                                 *)

\* line 140: the slice bound of page['page_content'][:1000]
ContentLimit == 1000
\* largest number of records handed to save_scraped_data
MaxRecords == 2

\* s[:n] cutting one character late
SliceOneLate(s, n) == SubSeq(s, 1, IF Len(s) < n + 1 THEN Len(s) ELSE n + 1)

\* s[:n]
Slice(s, n) == SubSeq(s, 1, IF Len(s) < n THEN Len(s) ELSE n)

\* line 136: enumerate(scraped_data) counting from 0
PageNumberFromZero(position) == position - 1

\* line 136: enumerate(scraped_data, 1); position is the 1-based place in the list
PageNumber(position) == position

\* lines 137-140: the four strings written for one record
PageLine(index) == <<"Page ", index, ":\n">>
TitleLine(page) == <<"Title: ">> \o page.title \o <<"\n">>
UrlLine(page) == <<"URL: ">> \o page.url \o <<"\n">>
ContentLine(page) ==
    <<"Content: ">> \o Slice(page.page_content, ContentLimit) \o <<"...\n\n">>

\* lines 136-140: everything the loop writes, in order
ReportLines(data) ==
    [j \in 1..(4 * Len(data)) |->
        LET position == ((j - 1) \div 4) + 1
            page == data[position]
        IN  CASE (j - 1) % 4 = 0 -> PageLine(PageNumber(position))
              [] (j - 1) % 4 = 1 -> TitleLine(page)
              [] (j - 1) % 4 = 2 -> UrlLine(page)
              [] OTHER -> ContentLine(page)]

\* a text of n characters, each telling its place
Digits == <<"0", "1", "2", "3", "4", "5", "6", "7", "8", "9">>
Text(n) == [k \in 1..n |-> Digits[(k % 10) + 1]]

\* the records tried: contents shorter than, as long as and longer than the cut
ReportRecords ==
    {[title |-> <<"t">>, url |-> u, page_content |-> c] :
        u \in {UrlA, UrlB},
        c \in {EmptyStr, Text(ContentLimit), Text(ContentLimit + 1),
                Text(ContentLimit + (ContentLimit \div 2))}}

\* lines 135-140: the file is opened and every record written
SaveScrapedData ==
    /\ save_status = "ready"
    /\ out_file' = ReportLines(scraped_data)
    /\ save_status' = "saved"
    /\ UNCHANGED <<scraped_data, crawl_vars, extract_vars, again_vars, main_vars>>

\* lines 135-140: open raises, or a write raises after k strings were written
SaveRaises ==
    /\ save_status = "ready"
    /\ \E k \in {0} \cup (0..(4 * Len(scraped_data) - 1)) :
          out_file' = SubSeq(ReportLines(scraped_data), 1, k)
    /\ save_status' = "raised"
    /\ UNCHANGED <<scraped_data, crawl_vars, extract_vars, again_vars, main_vars>>

InitReport ==
    /\ scraped_data \in SeqsUpTo(ReportRecords, MaxRecords)
    /\ out_file = <<>>
    /\ save_status = "ready"
    /\ CrawlIdle /\ ExtractIdle /\ FirstCall /\ MainIdle

NextReport == SaveScrapedData \/ SaveRaises

SpecReport == InitReport /\ [][NextReport]_vars

-----------------------------------------------------------------------------
(* main, lines 149-173 *)

\* line 162: max_depth=2
MainMaxDepth == 2

\* line 158: WebScraper(chromedriver_path) returns and scraper is bound
MainConstruct ==
    /\ main_pc = "construct"
    /\ scraper' = "bound"
    /\ main_pc' = "setup"
    /\ UNCHANGED <<driver, quits, unhandled, crawl_vars, extract_vars, report_vars,
                   again_vars>>

\* lines 158, 169-170: the constructor raises, scraper stays unbound
MainConstructRaises ==
    /\ main_pc = "construct"
    /\ main_pc' = "except"
    /\ UNCHANGED <<scraper, driver, quits, unhandled, crawl_vars, extract_vars,
                   report_vars, again_vars>>

\* lines 159, 37: setup_driver starts the browser
MainSetupDriver ==
    /\ main_pc = "setup"
    /\ driver' = "live"
    /\ main_pc' = "navigate"
    /\ UNCHANGED <<scraper, quits, unhandled, crawl_vars, extract_vars, report_vars,
                   again_vars>>

\* lines 159, 37, 169-170: webdriver.Chrome raises, self.driver stays None
MainSetupDriverRaises ==
    /\ main_pc = "setup"
    /\ main_pc' = "except"
    /\ UNCHANGED <<scraper, driver, quits, unhandled, crawl_vars, extract_vars,
                   report_vars, again_vars>>

\* lines 162, 98-99, 124: navigate_and_extract(page_url, max_depth=2) is entered
MainNavigate ==
    /\ main_pc = "navigate"
    /\ status = "idle"
    /\ status' = "running"
    /\ stack' = <<Frame(seed, 0, <<>>)>>
    /\ main_pc' = "navigating"
    /\ UNCHANGED <<seed, max_depth, scraped_pages, visited_urls, site, redirects,
                   gets, requests, paths, scraper, driver, quits, unhandled,
                   extract_vars, report_vars, again_vars>>

\* lines 162, 172-173: an exception that is no Exception (a KeyboardInterrupt)
\* leaves navigate_and_extract; neither except clause catches it, the finally
\* clause runs and the exception then leaves main
MainNavigateRaises ==
    /\ main_pc = "navigating"
    /\ status = "running"
    /\ status' = "raised"
    /\ unhandled' = "KeyboardInterrupt"
    /\ main_pc' = "finally"
    /\ UNCHANGED <<seed, max_depth, scraped_pages, visited_urls, stack, site,
                   redirects, gets, requests, paths, scraper, driver, quits,
                   extract_vars, report_vars, again_vars>>

\* lines 165-167: the returned list is saved and the count printed
MainSave ==
    /\ main_pc = "navigating"
    /\ status = "returned"
    /\ scraped_data' = scraped_pages
    /\ out_file' = ReportLines(scraped_pages)
    /\ save_status' = "saved"
    /\ main_pc' = "finally"
    /\ UNCHANGED <<scraper, driver, quits, unhandled, crawl_vars, extract_vars,
                   again_vars>>

\* lines 165, 169-170: save_scraped_data raises after k strings were written
MainSaveRaises ==
    /\ main_pc = "navigating"
    /\ status = "returned"
    /\ scraped_data' = scraped_pages
    /\ \E k \in {0} \cup (0..(4 * Len(scraped_pages) - 1)) :
          out_file' = SubSeq(ReportLines(scraped_pages), 1, k)
    /\ save_status' = "raised"
    /\ main_pc' = "except"
    /\ UNCHANGED <<scraper, driver, quits, unhandled, crawl_vars, extract_vars,
                   again_vars>>

\* lines 169-170: the except clause prints the error
MainExcept ==
    /\ main_pc = "except"
    /\ main_pc' = "finally"
    /\ UNCHANGED <<scraper, driver, quits, unhandled, crawl_vars, extract_vars,
                   report_vars, again_vars>>

\* lines 172-173, 146-147: scraper.close() quits the driver if there is one;
\* with scraper unbound the name lookup raises UnboundLocalError
MainFinally ==
    /\ main_pc = "finally"
    /\ main_pc' = "ended"
    /\ IF scraper = "unbound"
       THEN /\ unhandled' = "UnboundLocalError"
            /\ UNCHANGED <<driver, quits>>
       ELSE IF driver # "none"
       THEN /\ driver' = "quit"
            /\ quits' = quits + 1
            /\ UNCHANGED unhandled
       ELSE UNCHANGED <<driver, quits, unhandled>>
    /\ UNCHANGED <<scraper, crawl_vars, extract_vars, report_vars, again_vars>>

\* lines 150-156: main is entered: no scraper, no driver, nothing crawled
InitMain ==
    /\ main_pc = "construct"
    /\ scraper = "unbound"
    /\ driver = "none"
    /\ quits = 0
    /\ unhandled = "none"
    /\ seed = UrlA
    /\ max_depth = MainMaxDepth
    /\ scraped_pages = <<>>
    /\ visited_urls = {}
    /\ stack = <<>>
    /\ status = "idle"
    /\ site = [l \in Targets |-> Unknown]
    /\ redirects = FALSE
    /\ gets = <<>>
    /\ requests = <<>>
    /\ paths = <<>>
    /\ ExtractIdle /\ ReportIdle /\ FirstCall

NextMain ==
    \/ MainConstruct
    \/ MainConstructRaises
    \/ MainSetupDriver
    \/ MainSetupDriverRaises
    \/ MainNavigate
    \/ MainNavigateRaises
    \/ Next
    \/ MainSave
    \/ MainSaveRaises
    \/ MainExcept
    \/ MainFinally

SpecMain == InitMain /\ [][NextMain]_vars

-----------------------------------------------------------------------------
(* What a run has shown of the site *)

Range(s) == {s[i] : i \in 1..Len(s)}

\* number of driver.get calls issued for url
Gets(url) == Cardinality({i \in 1..Len(gets) : gets[i].url = url})

\* the indices of the records produced by requesting url
RecordsFor(url) == {i \in 1..Len(requests) : requests[i] = url}

\* the location loads and its details can be read
RendersOk(l) ==
    site[l].kind = "ok" /\ extract_page_details(site[l]) # DetailsRaised

\* the candidate locations the extractor yields for a successfully rendered page
Candidates(l) ==
    IF RendersOk(l) THEN Range(extract_image_links(site[l])) ELSE {}

\* the locations within k candidate links of the seed, along successfully
\* rendered pages
RECURSIVE Within(_)
Within(k) ==
    IF k < 0 THEN {}
    ELSE IF k = 0 THEN {seed}
    ELSE LET nearer == Within(k - 1)
         IN  nearer \cup UNION {Candidates(l) : l \in nearer}

\* A references B and B references A, both rendering successfully
CycleAB ==
    /\ seed = UrlA
    /\ UrlB \in Candidates(UrlA)
    /\ UrlA \in Candidates(UrlB)

-----------------------------------------------------------------------------
(* Claims *)

\* C1: whatever the link graph (cycles, self-references, repeated candidates),
\* the depth and the failures, the result holds at most one record produced
\* by requesting a given url; in the cycle A <-> B with max_depth >= 1 the
\* returned list holds exactly one record for A and exactly one for B.
C1_OneRecordPerRequest ==
    /\ Len(requests) = Len(scraped_pages)
    /\ \A url \in Targets : Cardinality(RecordsFor(url)) <= 1
    /\ (status = "returned" /\ CycleAB /\ max_depth >= 1) =>
          /\ Cardinality(RecordsFor(UrlA)) = 1
          /\ Cardinality(RecordsFor(UrlB)) = 1

\* C1 witness: the cycle A <-> B has been crawled to the end, and a page referenced itself
\* or repeated a candidate
C1_Witness ==
    /\ status = "returned"
    /\ CycleAB
    /\ max_depth >= 1
    /\ Len(requests) >= 2
    /\ \E l \in Locations :
          /\ RendersOk(l)
          /\ LET c == extract_image_links(site[l])
             IN  \/ l \in Range(c)
                 \/ \E i, j \in 1..Len(c) : i # j /\ c[i] = c[j]

\* C2: during one run driver.get is invoked at most once for any url.
C2_RenderedAtMostOnce ==
    \A url \in Targets : Gets(url) <= 1

\* C3: the returned list holds at most one record per final location ('url').
C3_UniqueRecordLocations ==
    status = "returned" =>
        \A i, j \in 1..Len(scraped_pages) :
            scraped_pages[i].url = scraped_pages[j].url => i = j

\* C4: no location is rendered, recorded or expanded in a call deeper than
\* max_depth, so every record is of a location within max_depth links of the
\* seed; with max_depth = 0 and a seed that renders the result is the seed's
\* record alone, with max_depth = 1 it is the seed followed only by direct
\* candidates of the seed.
C4_DepthBound ==
    /\ \A i \in 1..Len(gets) : gets[i].depth <= max_depth
    /\ \A i \in 1..Len(stack) :
          stack[i].pc = "loop" => stack[i].current_depth <= max_depth
    /\ \A i \in 1..Len(requests) : Len(paths[i]) <= max_depth
    /\ Range(requests) \subseteq Within(max_depth)
    /\ (status = "returned" /\ max_depth = 0 /\ RendersOk(seed)) =>
          /\ requests = <<seed>>
          /\ scraped_pages = <<extract_page_details(site[seed])>>
    /\ (status = "returned" /\ max_depth = 1 /\ RendersOk(seed)) =>
          /\ requests[1] = seed
          /\ \A i \in 2..Len(requests) : requests[i] \in Candidates(seed)

\* C4 witness: a run with max_depth = 1 has returned after refusing a candidate at depth 2
\* that was never recorded
C4_Witness ==
    /\ status = "returned"
    /\ max_depth = 1
    /\ Len(requests) >= 2
    /\ \E i \in 2..Len(requests) :
          Candidates(requests[i]) \ Range(requests) # {}

\* C5: when the run returns, the result holds exactly one record for every
\* location that renders successfully and lies within max_depth candidate
\* links of the seed (shortest path along successfully rendered pages), and no
\* other record.  A location the run never requested is one the site may well
\* render: the run is the same whatever the site would answer for it.
MayRender(l) == site[l].kind = "unknown" \/ RendersOk(l)

C5_ResultComplete ==
    status = "returned" =>
        /\ \A l \in Locations :
              (l \in Within(max_depth) /\ MayRender(l)) =>
                  Cardinality(RecordsFor(l)) = 1
        /\ Range(requests) \subseteq Within(max_depth)
        /\ \A i \in 1..Len(requests) : RendersOk(requests[i])

\* C6: the records are in depth-first pre-order of the call tree: the record
\* of a node comes before every record of the subtree explored from it, and
\* the records under candidate i of a page all come before those under
\* candidate j > i of that page, i and j being positions in the extractor's
\* candidate list.
IsPrefix(p, q) == Len(p) <= Len(q) /\ SubSeq(q, 1, Len(p)) = p

PreOrderBefore(p, q) ==
    \E k \in 1..Len(q) :
        /\ k <= Len(p) + 1
        /\ SubSeq(p, 1, k - 1) = SubSeq(q, 1, k - 1)
        /\ (k = Len(p) + 1 \/ p[k] < q[k])

\* record i is the record of the candidate its position names
AtItsPosition(i) ==
    IF paths[i] = <<>> THEN requests[i] = seed
    ELSE \E j \in 1..(i - 1) :
            /\ paths[j] = Pop(paths[i])
            /\ Last(paths[i]) <= Len(extract_image_links(site[requests[j]]))
            /\ requests[i] = extract_image_links(site[requests[j]])[Last(paths[i])]

C6_PreOrder ==
    /\ Len(paths) = Len(scraped_pages)
    /\ \A i \in 1..Len(paths) : AtItsPosition(i)
    /\ \A i, j \in 1..Len(paths) : i < j => PreOrderBefore(paths[i], paths[j])

\* C6 witness: a returned result where a grandchild of the seed is recorded
\* before a later child of the seed (not the breadth-first order)
C6_Witness ==
    /\ status = "returned"
    /\ \E i, j \in 1..Len(paths) :
          /\ i < j
          /\ Len(paths[i]) = 2
          /\ Len(paths[j]) = 1
          /\ paths[i][1] < paths[j][1]

\* every candidate of a recorded page above the depth bound has been requested,
\* and is recorded when it renders
CandidatesExplored ==
    \A i \in 1..Len(requests) :
        Len(paths[i]) < max_depth =>
            \A c \in Candidates(requests[i]) :
                /\ Gets(c) >= 1
                /\ RendersOk(c) => c \in Range(requests)

\* C7: a location whose driver.get fails gives no record and none of its
\* candidates is discovered, the remaining candidates of its ancestors are
\* still explored and navigate_and_extract returns without raising.
C7_RenderFailureIsLocal ==
    /\ status # "raised"
    /\ \A l \in Targets :
          site[l].kind = "get_fails" =>
              /\ RecordsFor(l) = {}
              /\ \A i, j \in 1..Len(gets) :
                    gets[i].url = l => ~(IsPrefix(gets[i].path, gets[j].path) /\ i # j)
    /\ status = "returned" => CandidatesExplored

\* C7 witness: seed A with candidates B then C, B failing and C rendering:
\* the returned result holds A and C and not B
C7_Witness ==
    /\ status = "returned"
    /\ seed = UrlA
    /\ RendersOk(UrlA)
    /\ extract_image_links(site[UrlA]) = <<UrlB, UrlC>>
    /\ site[UrlB].kind = "get_fails"
    /\ requests = <<UrlA, UrlC>>

\* extract_page_details raises for the page of l
DetailsFail(l) ==
    site[l].kind = "ok" /\ extract_page_details(site[l]) = DetailsRaised

\* the candidate list of the page of l cannot be extracted as a whole
LinksFail(l) ==
    /\ RendersOk(l)
    /\ \/ site[l].find_raises
       \/ \E i \in 1..Len(site[l].imgs) : ImgLink(site[l].imgs[i]) = Raised

\* no call was made for a candidate of the call at position p
NothingExploredBelow(p) ==
    /\ \A i \in 1..Len(gets) : ~(IsPrefix(p, gets[i].path) /\ gets[i].path # p)
    /\ \A i \in 1..Len(stack) : ~(IsPrefix(p, stack[i].path) /\ stack[i].path # p)

C9_PerElementIsolation ==
    \A l \in Targets :
        (site[l].kind = "ok" /\ ~site[l].find_raises) =>
            extract_image_links(site[l]) = PerElementLinks(site[l])

\* C10: with a malformed seed or a negative max_depth navigate_and_extract
\* fails before any driver.get: it neither requests the seed nor returns a list.
C10_ArgumentsValidated ==
    (seed \notin Locations \/ max_depth < 0) =>
        /\ gets = <<>>
        /\ status # "returned"

\* the reference of an element: its src, or its parent's href when it has no src
Reference(img) == IF Truthy(img.src) THEN img.src ELSE img.href

\* an absolute reference: it starts with a network scheme and '://'
HasNetworkScheme(link) ==
    \/ StartsWith(link, HTTP \o <<":", "/", "/">>)
    \/ StartsWith(link, HTTP \o <<"s", ":", "/", "/">>)

IsAbsolute(link) == Truthy(link) /\ HasNetworkScheme(link)

\* every element of the page can be read
AllReadable(page) ==
    /\ ~page.find_raises
    /\ \A i \in 1..Len(page.imgs) : ImgLink(page.imgs[i]) # Raised

\* C11: the list extract_image_links returns holds exactly the references of
\* the document that are absolute with a network scheme, in document order;
\* relative, empty, missing and scheme-less references are discarded, also
\* those that merely begin with the letters 'http'.  Stated for the documents
\* whose elements can all be read.
C11_CandidateFilter ==
    (extracted # NotExtracted /\ AllReadable(document)) =>
        extracted =
            SelectSeq([i \in 1..Len(document.imgs) |-> Reference(document.imgs[i])],
                      IsAbsolute)

\* the string written for the content of a record: 'Content: ', the first
\* 1000 characters of the content (all of it when it is shorter), '...'
IsContentLine(line, content) ==
    LET kept == IF Len(content) < 1000 THEN Len(content) ELSE 1000
    IN  /\ Len(line) = kept + 2
        /\ line[1] = "Content: "
        /\ \A k \in 1..kept : line[k + 1] = content[k]
        /\ line[kept + 2] = "...\n\n"

\* C12: save_scraped_data writes one block per record, in the input order,
\* numbered from 1, each with the title, the url and the first 1000
\* characters of the content followed by '...'; no record is dropped,
\* duplicated or reordered.
C12_ReportFormat ==
    save_status = "saved" =>
        /\ Len(out_file) = 4 * Len(scraped_data)
        /\ \A n \in 1..Len(scraped_data) :
              /\ out_file[4 * n - 3] = <<"Page ", n, ":\n">>
              /\ out_file[4 * n - 2] = <<"Title: ">> \o scraped_data[n].title \o <<"\n">>
              /\ out_file[4 * n - 1] = <<"URL: ">> \o scraped_data[n].url \o <<"\n">>
              /\ IsContentLine(out_file[4 * n], scraped_data[n].page_content)

\* C12 witness: two different records were saved, the first with a content of
\* 1500 characters
C12_Witness ==
    /\ save_status = "saved"
    /\ Len(scraped_data) = 2
    /\ scraped_data[1] # scraped_data[2]
    /\ Len(scraped_data[1].page_content) = 1500
    /\ Len(out_file[4]) = 1002

\* C13: a second call with the same seed and max_depth, against a site that
\* answers every location as it did before, returns the same records in the
\* same order; nothing of the first call's list or visited set reaches it.
C13_SecondCallSameResult ==
    (run = 2 /\ status = "returned") => scraped_pages = first_result

\* C13 witness: both calls returned, with at least two records
C13_Witness ==
    /\ run = 2
    /\ status = "returned"
    /\ Len(first_result) >= 2
    /\ Len(scraped_pages) >= 2

\* C14: the browser session is acquired before the traversal begins and at
\* most once; whenever it was acquired it is released by exactly one
\* driver.quit() before main ends, on every exit path, and a failure to
\* construct the scraper or to set up the driver does not make main end with
\* a further unhandled error.
C14_DriverLifecycle ==
    /\ status = "running" => driver = "live"
    /\ quits <= 1
    /\ main_pc = "ended" =>
          /\ driver # "live"
          /\ driver = "quit" <=> quits = 1
          /\ unhandled # "UnboundLocalError"

\* the calls that have passed the guard of line 102 and are still running
PassedGuard == {i \in 1..Len(stack) : stack[i].pc = "loop"}

\* C15: the seed is explored at depth 0, every recursive call has its
\* caller's depth plus 1, a call keeps its depth, and at most max_depth + 1
\* nested calls have passed the guard, however many candidates the pages have.
C15_DepthCounter ==
    /\ \A i \in 1..Len(stack) : stack[i].current_depth = i - 1
    /\ \A i \in 1..Len(stack) : Len(stack[i].path) = stack[i].current_depth
    /\ Cardinality(PassedGuard) <= max_depth + 1

\* C15 witness: max_depth + 1 = 3 nested calls have passed the guard, under a
\* page with two candidates
C15_Witness ==
    /\ max_depth = 2
    /\ Cardinality(PassedGuard) = 3
    /\ Len(stack[1].image_links) >= 2

\* the most candidates a page of the site lists
MaxFanOut == MaxImages

\* The steps a call of recursive_scrape at depth d can still take, at most: one
\* when the guard or a failure ends it; else one to load the page, and for each
\* candidate one to enter the iteration plus the steps of the call it makes,
\* and one to leave the loop.
RECURSIVE CallSteps(_)
CallSteps(d) ==
    IF d > max_depth THEN 1
    ELSE 2 + MaxFanOut * (1 + CallSteps(d + 1))

\* the steps left to a call that is in its for loop
LoopSteps(f) ==
    1 + (Len(f.image_links) - f.i + 1) * (1 + CallSteps(f.current_depth + 1))

FrameSteps(f) == IF f.pc = "call" THEN CallSteps(f.current_depth) ELSE LoopSteps(f)

RECURSIVE StackSteps(_)
StackSteps(stk) ==
    IF stk = <<>> THEN 0 ELSE FrameSteps(Last(stk)) + StackSteps(Pop(stk))

\* the steps left to navigate_and_extract, line 125 included
StepsLeft == StackSteps(stack) + (IF status = "running" THEN 1 ELSE 0)

\* C16: navigate_and_extract returns after finitely many steps, whatever the
\* cycles and the failing locations of the site: until it has returned a step
\* can always be taken (a render call returns or fails), and every step
\* lowers a bound on the steps left, which is a natural number and is 0 once
\* the call has returned.
C16_Terminates ==
    /\ [](StepsLeft \in Nat)
    /\ [](status = "returned" <=> StepsLeft = 0)
    /\ [](status # "returned" => ENABLED Next)
    /\ [][StepsLeft' < StepsLeft]_vars

\* C16 witness: the call has returned from a site where the seed lists
\* itself and a location that fails, and the failing location was requested
\* twice
C16_Witness ==
    /\ status = "returned"
    /\ max_depth >= 1
    /\ Len(scraped_pages) >= 2
    /\ \E i, j \in 1..Len(gets) :
          /\ i < j
          /\ gets[i].url = gets[j].url
          /\ site[gets[i].url].kind = "get_fails"
    /\ \E l \in visited_urls : \E k \in 1..Len(site[l].imgs) : site[l].imgs[k].src = l

\* lines 111-112 in one step: a record is appended for the url that line 106
\* has just requested, and that url, new to the set, is inserted
InsertsWithRecord ==
    \E u \in Targets \ visited_urls :
        /\ visited_urls' = visited_urls \cup {u}
        /\ Len(gets') = Len(gets) + 1
        /\ gets'[Len(gets')].url = u
        /\ Len(scraped_pages') = Len(scraped_pages) + 1
        /\ \A k \in 1..Len(scraped_pages) : scraped_pages'[k] = scraped_pages[k]
        /\ requests' = Append(requests, u)

\* C17: the visited set only grows, and only together with a record for the
\* url just requested; at every entry to and return from a call there are as
\* many records as visited locations, the i-th inserted location is the url
\* requested for the i-th record, and a location is visited exactly when a
\* record was appended for a request of it.
C17_RecordsAndVisitedInStep ==
    /\ [](Cardinality(visited_urls) = Len(scraped_pages))
    /\ [](Len(requests) = Len(scraped_pages))
    /\ [](visited_urls = Range(requests))
    /\ [](\A l \in Targets : l \in visited_urls <=> RecordsFor(l) # {})
    /\ [][visited_urls \subseteq visited_urls']_vars
    /\ [][(visited_urls' # visited_urls \/ scraped_pages' # scraped_pages)
            => InsertsWithRecord]_vars

\* C17 witness: a call is entered when two records have been appended, and a
\* location that failed has been requested and stays outside the set
C17_Witness ==
    /\ TopIs("call")
    /\ Len(scraped_pages) = 2
    /\ Cardinality(visited_urls) = 2
    /\ \E k \in 1..Len(gets) : gets[k].url \notin visited_urls

====
